---- MODULE Spec2Model ----
(***************************************************************************)
(* lightmux: routing table, route groups, middleware composition and the   *)
(* dispatch functions installed into net/http's ServeMux.                  *)
(*                                                                         *)
(* A path is a sequence of segments (<<"a","b">> is "/a/b"), so that the   *)
(* string concatenation prefix + path is sequence concatenation.  A        *)
(* middleware slice is a Go slice: a reference to a backing array in       *)
(* `heap` plus a length; append writes in place while capacity allows.     *)
(* A composed handler is the closure chain m0(m1(...(h))) written as       *)
(* [mws |-> <<m0, m1, ...>>, h |-> h]: wrapping a handler with m puts m    *)
(* in front of it.                                                         *)
(***************************************************************************)
EXTENDS Integers, Sequences, FiniteSets, TLC

\* ---------------------------------------------------------------- bounds
MaxArrays == 2      \* backing arrays ever allocated
MaxGroups == 2      \* RouteGroup objects ever created
MaxChain  == 4      \* longest middleware slice Route.Use may grow
MaxGroupChain == 4  \* longest middleware slice a RouteGroup may hand on
MaxGlobal == 2      \* longest global middleware stack
MaxInflight == 1    \* connections with a request in flight at one time

\* the grace period Run gives Shutdown, in seconds
GracePeriod == 5

\* ---------------------------------------------------------------- inputs
MwInputs      == {<<>>, <<"A", "B">>}
UseInputs     == {<<"C">>}
HandlerInputs == {"h1", "h2"}
\* the Handle calls made on the first and on the second route
HandleInputsA == {<<"GET", "h1">>, <<"GET", "h2">>, <<"POST", "h2">>,
                  <<"get", "h1">>}
HandleInputsB == {<<"GET", "h2">>, <<"", "h1">>}
\* the requests: path, method, and the middleware that do not call next
ReqInputs     == ({<<"a">>} \X {"GET", "POST"} \X {{}, {"B"}})
                 \cup ({<<"a">>, <<"b">>} \X {"PUT"} \X {{}})

\* ---------------------------------------------------------------- helpers
Range(s) == {s[i] : i \in 1..Len(s)}

Perms(S) == {s \in [1..Cardinality(S) -> S] : Range(s) = S}

EmptyMap == [x \in {} |-> x]

\* variant: the method token is compared without regard to case
isValidMethodAnyCase(method) ==
    method \in {"GET", "POST", "PUT", "DELETE", "PATCH", "HEAD", "OPTIONS",
                "CONNECT", "TRACE", "get", "Get"}

\* net/http method constants accepted by isValidMethod
isValidMethod(method) ==
    method \in {"GET", "POST", "PUT", "DELETE", "PATCH", "HEAD", "OPTIONS",
                "CONNECT", "TRACE"}

\* variant: the loop over the map never appends
allowedMethodsJoinNone(mp) == {<<>>}

\* allowedMethodsJoin: the keys of the method map, in map iteration order,
\* which Go leaves unspecified: every ordering of the keys is a result.
allowedMethodsJoin(mp) == Perms(DOMAIN mp)

\* ---------------------------------------------------------------- slices
NilSlice == [arr |-> 0, len |-> 0]

Cap(h, s) == IF s.arr = 0 THEN 0 ELSE Len(h[s.arr])

\* the elements of slice s
View(h, s) == IF s.arr = 0 THEN <<>> ELSE SubSeq(h[s.arr], 1, s.len)

\* runtime size classes for 8-byte elements: 8,16,24,32,48,64 bytes
RoundUpCap(n) == IF n <= 4 THEN n ELSE IF n <= 6 THEN 6 ELSE IF n <= 8 THEN 8 ELSE n

\* capacity chosen by append when the backing array must grow
GrowCap(oldCap, newLen) ==
    RoundUpCap(IF newLen > 2 * oldCap THEN newLen ELSE 2 * oldCap)

Pad(xs, c) == xs \o [i \in 1..(c - Len(xs)) |-> "nil"]

\* the slice a variadic call site passes: nil for no arguments, otherwise a
\* fresh array holding exactly the arguments
Variadic(h, xs) ==
    IF xs = <<>> THEN [heap |-> h, slice |-> NilSlice]
    ELSE [heap |-> Append(h, xs), slice |-> [arr |-> Len(h) + 1, len |-> Len(xs)]]

\* append(s, xs...): in place when the capacity allows, else a new array
GoAppend(h, s, xs) ==
    IF xs = <<>> THEN [heap |-> h, slice |-> s]
    ELSE IF s.len + Len(xs) <= Cap(h, s)
    THEN [heap  |-> [h EXCEPT ![s.arr] =
                        [i \in 1..Len(@) |->
                            IF i > s.len /\ i <= s.len + Len(xs)
                            THEN xs[i - s.len] ELSE @[i]]],
          slice |-> [arr |-> s.arr, len |-> s.len + Len(xs)]]
    ELSE [heap  |-> Append(h, Pad(View(h, s) \o xs,
                                  GrowCap(Cap(h, s), s.len + Len(xs)))),
          slice |-> [arr |-> Len(h) + 1, len |-> s.len + Len(xs)]]

\* ---------------------------------------------------------------- handlers
\* an application handler, not yet wrapped
Terminal(h) == [mws |-> <<>>, h |-> h]

\* m(handler): the closure that runs m and hands over to handler
ApplyMw(m, handler) == [handler EXCEPT !.mws = <<m>> \o @]

RECURSIVE WrapFrom(_, _, _)
WrapFrom(mws, i, handler) ==
    IF i < 1 THEN handler
    ELSE WrapFrom(mws, i - 1, ApplyMw(mws[i], handler))

RECURSIVE WrapUpFrom(_, _, _)
WrapUpFrom(mws, i, handler) ==
    IF i > Len(mws) THEN handler
    ELSE WrapUpFrom(mws, i + 1, ApplyMw(mws[i], handler))

\* variant: the loop runs from the first middleware to the last
wrapMiddlewaresForward(mws, handler) == WrapUpFrom(mws, 1, handler)

\* Route.wrapMiddlewares: for i := len-1 .. 0 { handler = mws[i](handler) }
wrapMiddlewares(mws, handler) == WrapFrom(mws, Len(mws), handler)

\* variant: the loop runs from the first middleware to the last
chainMiddlewaresForward(handler, middlewares) == WrapUpFrom(middlewares, 1, handler)

\* chainMiddlewares: the same loop over the global stack
chainMiddlewares(handler, middlewares) ==
    WrapFrom(middlewares, Len(middlewares), handler)

VARIABLES
    routeMap,               \* l.routeMap: path -> Route
    heap,                   \* backing arrays of the middleware slices
    groups,                 \* the RouteGroup objects created so far
    globalMiddlewareStack,  \* l.globalMiddlewareStack
    mux,                    \* l.mux: pattern -> installed dispatch closure
    fallback,               \* a handler registered on Mux() for "/"
    serverHandler,          \* l.server.Handler
    binding,                \* (path, method) -> the handler passed to Handle
                            \* and the Route's middleware at that call
    applied,                \* what the route methods and the global stack
                            \* were when they were last installed
    last,                   \* the call just made and how it ended
    called,                 \* order-recording side channel of the request
    resp,                   \* the response of the request just served
    run,                    \* the Run call, its goroutine and the server
    other                   \* a second LightMux, made with its own server

vars == <<routeMap, heap, groups, globalMiddlewareStack, mux, fallback,
          serverHandler, binding, applied, last, called, resp, run, other>>

NoCall == [op |-> "none", path |-> <<>>, method |-> "", mws |-> <<>>,
           h |-> "", g |-> 0, blocked |-> {}, panic |-> "", via |-> "",
           repeat |-> FALSE]

NoResp == [wroteHeader |-> FALSE, status |-> 0, header |-> EmptyMap,
           sent |-> EmptyMap, body |-> {}]

\* no Run call yet: the server is constructed and not listening
NoRun == [pc |-> "idle", result |-> "", go |-> "none", listenErr |-> "",
          errCh |-> <<>>, recv |-> "", cancelled |-> FALSE,
          whileServing |-> FALSE, srv |-> "new",
          inflight |-> 0, shutdownCalls |-> 0, deadline |-> 0, elapsed |-> 0,
          lnerr |-> "", shutdownErr |-> "", exit |-> ""]

Init ==
    /\ routeMap = EmptyMap
    /\ heap = <<>>
    /\ groups = <<>>
    /\ globalMiddlewareStack = <<>>
    /\ mux = EmptyMap
    /\ fallback = FALSE
    /\ serverHandler = [mws |-> <<>>, h |-> "nil"]
    /\ binding = EmptyMap
    /\ applied = [methods |-> EmptyMap, global |-> <<>>,
                  routes |-> FALSE, final |-> FALSE]
    /\ last = NoCall
    /\ called = <<>>
    /\ resp = NoResp
    /\ run = NoRun
    /\ other = [globalMiddlewareStack |-> <<>>,
                serverHandler |-> [mws |-> <<>>, h |-> "nil"],
                used |-> <<>>]

\* a registration call leaves no request observation behind
NoRequest == called' = <<>> /\ resp' = NoResp

\* ---------------------------------------------------------------- routes
\* variant: the Route is stored without its path
NewRouteObjNoPath(path, slice) ==
    [Path |-> <<>>, Methods |-> EmptyMap, Middlewares |-> slice]

\* &Route{Path: path, Methods: make(map), Middlewares: middlewares}
NewRouteObj(path, slice) ==
    [Path |-> path, Methods |-> EmptyMap, Middlewares |-> slice]

\* variant: no check for an existing path
NewRouteOverwrite(path, mws) ==
    LET v == Variadic(heap, mws) IN
    /\ Len(v.heap) <= MaxArrays
    /\ routeMap' = [p \in DOMAIN routeMap \cup {path} |->
                       IF p = path THEN NewRouteObj(path, v.slice) ELSE routeMap[p]]
    /\ heap' = v.heap
    /\ last' = [NoCall EXCEPT !.op = "NewRoute", !.path = path, !.mws = mws]
    /\ NoRequest
    /\ UNCHANGED <<other, run, groups, globalMiddlewareStack, mux, fallback,
                   serverHandler, binding, applied>>

\* LightMux.NewRoute(path, middlewares...)
NewRoute(path, mws) ==
    LET v == Variadic(heap, mws) IN
    /\ Len(v.heap) <= MaxArrays
    /\ IF path \in DOMAIN routeMap
       THEN /\ last' = [NoCall EXCEPT !.op = "NewRoute", !.path = path,
                           !.mws = mws, !.panic = "route exists"]
            /\ UNCHANGED <<other, run, routeMap, heap>>
       ELSE /\ routeMap' = (path :> NewRouteObj(path, v.slice)) @@ routeMap
            /\ heap' = v.heap
            /\ last' = [NoCall EXCEPT !.op = "NewRoute", !.path = path,
                           !.mws = mws]
    /\ NoRequest
    /\ UNCHANGED <<other, run, groups, globalMiddlewareStack, mux, fallback,
                   serverHandler, binding, applied>>

\* Route.Use(middlewares...) on the Route stored under path
RouteUse(path, mws) ==
    /\ path \in DOMAIN routeMap
    /\ LET r == routeMap[path]
           a == GoAppend(heap, r.Middlewares, mws) IN
       /\ a.slice.len <= MaxChain
       /\ Len(a.heap) <= MaxArrays
       /\ heap' = a.heap
       /\ routeMap' = [routeMap EXCEPT ![path].Middlewares = a.slice]
    /\ last' = [NoCall EXCEPT !.op = "RouteUse", !.path = path, !.mws = mws]
    /\ NoRequest
    /\ UNCHANGED <<other, run, groups, globalMiddlewareStack, mux, fallback,
                   serverHandler, binding, applied>>

\* variant: no check for an already bound method
HandleOverwrite(path, method, handler) ==
    /\ path \in DOMAIN routeMap
    /\ LET r == routeMap[path] IN
       IF ~isValidMethod(method)
       THEN /\ last' = [NoCall EXCEPT !.op = "Handle", !.path = path,
                           !.method = method, !.h = handler,
                           !.panic = "invalid method"]
            /\ UNCHANGED <<other, run, routeMap, binding>>
       ELSE /\ routeMap' = [routeMap EXCEPT ![path].Methods =
                   [m \in DOMAIN @ \cup {method} |->
                       IF m = method
                       THEN wrapMiddlewares(View(heap, r.Middlewares),
                                            Terminal(handler))
                       ELSE @[m]]]
            /\ binding' = [k \in DOMAIN binding \cup {<<path, method>>} |->
                              IF k = <<path, method>>
                              THEN [h |-> handler, mws |-> View(heap, r.Middlewares)]
                              ELSE binding[k]]
            /\ last' = [NoCall EXCEPT !.op = "Handle", !.path = path,
                           !.method = method, !.h = handler]
    /\ NoRequest
    /\ UNCHANGED <<other, run, heap, groups, globalMiddlewareStack, mux, fallback,
                   serverHandler, applied>>

\* Route.Handle(method, handler) on the Route stored under path
Handle(path, method, handler) ==
    /\ path \in DOMAIN routeMap
    /\ LET r == routeMap[path] IN
       IF ~isValidMethod(method)
       THEN /\ last' = [NoCall EXCEPT !.op = "Handle", !.path = path,
                           !.method = method, !.h = handler,
                           !.panic = "invalid method"]
            /\ UNCHANGED <<other, run, routeMap, binding>>
       ELSE IF method \in DOMAIN r.Methods
       THEN /\ last' = [NoCall EXCEPT !.op = "Handle", !.path = path,
                           !.method = method, !.h = handler,
                           !.panic = "duplicate method"]
            /\ UNCHANGED <<other, run, routeMap, binding>>
       ELSE /\ routeMap' = [routeMap EXCEPT ![path].Methods =
                   (method :> wrapMiddlewares(View(heap, r.Middlewares),
                                              Terminal(handler))) @@ @]
            /\ binding' = (<<path, method>> :>
                              [h |-> handler, mws |-> View(heap, r.Middlewares)])
                           @@ binding
            /\ last' = [NoCall EXCEPT !.op = "Handle", !.path = path,
                           !.method = method, !.h = handler]
    /\ NoRequest
    /\ UNCHANGED <<other, run, heap, groups, globalMiddlewareStack, mux, fallback,
                   serverHandler, applied>>

\* ---------------------------------------------------------------- net/http
\* ResponseWriter.WriteHeader: the first call fixes the status and takes a
\* snapshot of the header map; later calls are ignored
WriteHeader(w, code) ==
    IF w.wroteHeader THEN w
    ELSE [w EXCEPT !.wroteHeader = TRUE, !.status = code, !.sent = w.header]

\* ResponseWriter.Header().Set(k, v): changes the handler's map only
HeaderSet(w, k, v) == [w EXCEPT !.header = (k :> v) @@ @]

\* http.DetectContentType of a JSON text
DetectContentType == "text/plain; charset=utf-8"

\* ResponseWriter.Write: commits status 200 if none was written, and sniffs
\* the Content-Type when the committed headers carry none
Write(w, data) ==
    LET w1 == WriteHeader(w, 200)
        w2 == IF "Content-Type" \in DOMAIN w1.sent THEN w1
              ELSE [w1 EXCEPT !.sent = ("Content-Type" :> DetectContentType) @@ @]
    IN [w2 EXCEPT !.body = data]

\* the server commits status 200 when the handler returned without writing
Finish(w) == WriteHeader(w, 200)

\* variant: every middleware calls next
RunMwsCallsNext(mws, blocked) == [called |-> mws, reached |-> TRUE]

\* the middleware of a chain that run, in order, and whether the innermost
\* handler is reached; a middleware in `blocked` returns without calling next
RECURSIVE RunMws(_, _)
RunMws(mws, blocked) ==
    IF mws = <<>> THEN [called |-> <<>>, reached |-> TRUE]
    ELSE IF Head(mws) \in blocked THEN [called |-> <<Head(mws)>>, reached |-> FALSE]
    ELSE LET r == RunMws(Tail(mws), blocked)
         IN [called |-> <<Head(mws)>> \o r.called, reached |-> r.reached]

\* handler.ServeHTTP(w, r) for a composed route handler; the application
\* handler records itself and writes status 200
ServeHandler(handler, w, blocked) ==
    LET r == RunMws(handler.mws, blocked) IN
    IF r.reached
    THEN [called |-> r.called \o <<handler.h>>, w |-> WriteHeader(w, 200)]
    ELSE [called |-> r.called, w |-> w]

\* variant: the body is written without a WriteHeader(405) before it
MethodNotAllowedNoStatus(w, method, path, allowed) ==
    Write(HeaderSet(w, "Content-Type", "application/json"),
          {<<"error", <<method, path, allowed>>>>})

\* the 405 branch of the dispatch closure
MethodNotAllowed(w, method, path, allowed) ==
    LET w1 == WriteHeader(w, 405)
        w2 == HeaderSet(w1, "Content-Type", "application/json")
    IN Write(w2, {<<"error", <<method, path, allowed>>>>})

\* variant: the closure serves whichever handler the route has
DispatchAnyMethod(entry, method, path, w, blocked) ==
    LET route == routeMap[entry.route] IN
    IF method \in DOMAIN route.Methods
    THEN ServeHandler(route.Methods[CHOOSE m \in DOMAIN route.Methods : m # method
                                        \/ DOMAIN route.Methods = {method}],
                      w, blocked)
    ELSE [called |-> <<>>, w |-> MethodNotAllowed(w, method, path, entry.allowed)]

\* the dispatch closure ApplyRoutes installs for one route
Dispatch(entry, method, path, w, blocked) ==
    LET route == routeMap[entry.route] IN
    IF method \in DOMAIN route.Methods
    THEN ServeHandler(route.Methods[method], w, blocked)
    ELSE [called |-> <<>>, w |-> MethodNotAllowed(w, method, path, entry.allowed)]

\* http.NotFound
NotFound(w) ==
    Write(WriteHeader(HeaderSet(w, "Content-Type", "text/plain; charset=utf-8"), 404),
          {<<"text", "404 page not found">>})

\* the pattern "/": a path is the sequence of its segments, and a trailing
\* slash is a last segment ""
Root == <<"">>

\* a pattern ending in "/" names the whole subtree below it
Subtree(pat) == pat # <<>> /\ pat[Len(pat)] = ""

\* ServeMux pattern matching: the path itself, or a path under a subtree
\* pattern
Matches(pat, path) ==
    \/ pat = path
    \/ /\ Subtree(pat)
       /\ Len(path) >= Len(pat)
       /\ SubSeq(path, 1, Len(pat) - 1) = SubSeq(pat, 1, Len(pat) - 1)

\* the patterns registered on the ServeMux: the Routes ApplyRoutes installed
\* and the handler the application put on "/"
Registered == DOMAIN mux \cup (IF fallback THEN {Root} ELSE {})

\* variant: a pattern matches only the path equal to it
MatchExact(path) ==
    IF path \in Registered THEN [kind |-> "pattern", pat |-> path]
    ELSE [kind |-> "none", pat |-> <<>>]

\* ServeMux.Handler: the exact pattern, else a redirect to path + "/" when
\* that is a pattern, else the longest subtree pattern above the path
Match(path) ==
    LET m == {pat \in Registered : Matches(pat, path)} IN
    IF path \in Registered THEN [kind |-> "pattern", pat |-> path]
    ELSE IF path \o <<"">> \in Registered THEN [kind |-> "redirect", pat |-> path \o <<"">>]
    ELSE IF m = {} THEN [kind |-> "none", pat |-> <<>>]
    ELSE [kind |-> "pattern",
          pat |-> CHOOSE pat \in m : \A q \in m : Len(q) <= Len(pat)]

\* http.Redirect with StatusMovedPermanently
Redirect(w) == WriteHeader(w, 301)

\* variant: the Route's middleware runs around the whole dispatch closure
MuxServeRouteMiddleware(path, method, w, blocked) ==
    LET m == Match(path) IN
    IF m.kind = "redirect" THEN [called |-> <<>>, w |-> Redirect(w)]
    ELSE IF m.kind = "none" THEN [called |-> <<>>, w |-> NotFound(w)]
    ELSE IF m.pat \in DOMAIN mux
    THEN LET r == RunMws(View(heap, routeMap[mux[m.pat].route].Middlewares), blocked)
             d == Dispatch(mux[m.pat], method, path, w, blocked)
         IN IF r.reached THEN [called |-> r.called \o d.called, w |-> d.w]
            ELSE [called |-> r.called, w |-> w]
    ELSE [called |-> <<"fallback">>, w |-> WriteHeader(w, 200)]

\* l.mux.ServeHTTP: the handler of the matching pattern (a Route's dispatch
\* closure, or the application's handler on "/"), else a redirect or 404
MuxServe(path, method, w, blocked) ==
    LET m == Match(path) IN
    IF m.kind = "redirect" THEN [called |-> <<>>, w |-> Redirect(w)]
    ELSE IF m.kind = "none" THEN [called |-> <<>>, w |-> NotFound(w)]
    ELSE IF m.pat \in DOMAIN mux THEN Dispatch(mux[m.pat], method, path, w, blocked)
    ELSE [called |-> <<"fallback">>, w |-> WriteHeader(w, 200)]

\* variant: the server handler reads the global stack at request time
ServerServeLiveStack(path, method, w, blocked) ==
    LET r == RunMws(globalMiddlewareStack, blocked) IN
    IF r.reached
    THEN LET d == MuxServe(path, method, w, blocked)
         IN [called |-> r.called \o d.called, w |-> d.w]
    ELSE [called |-> r.called, w |-> w]

\* l.server.Handler.ServeHTTP: the global chain around the mux
ServerServe(path, method, w, blocked) ==
    LET r == RunMws(serverHandler.mws, blocked) IN
    IF r.reached
    THEN LET d == MuxServe(path, method, w, blocked)
         IN [called |-> r.called \o d.called, w |-> d.w]
    ELSE [called |-> r.called, w |-> w]

\* ---------------------------------------------------------------- finalize
\* variant: routes whose path is already installed are skipped
ApplyRoutesSkipInstalled ==
    LET S == DOMAIN routeMap \ DOMAIN mux IN
    /\ \E al \in [S -> UNION {allowedMethodsJoin(routeMap[p].Methods) : p \in S}] :
          /\ \A p \in S : al[p] \in allowedMethodsJoin(routeMap[p].Methods)
          /\ mux' = [p \in S |-> [route |-> routeMap[p].Path, allowed |-> al[p]]] @@ mux
          /\ applied' = [applied EXCEPT
                            !.methods = [p \in S |-> DOMAIN routeMap[p].Methods] @@ @,
                            !.routes = TRUE]
    /\ last' = [NoCall EXCEPT !.op = "ApplyRoutes"]
    /\ NoRequest
    /\ UNCHANGED <<other, routeMap, heap, groups, globalMiddlewareStack, fallback,
                   serverHandler, binding>>

\* LightMux.ApplyRoutes.  ServeMux.HandleFunc panics on a pattern that is
\* already registered; the routes ranged over before that one are installed.
ApplyRoutesBody ==
    LET conflict == DOMAIN routeMap \cap Registered IN
    /\ \E S \in SUBSET (DOMAIN routeMap \ Registered) :
       \E al \in [S -> UNION {allowedMethodsJoin(routeMap[p].Methods) : p \in S}] :
          /\ conflict = {} => S = DOMAIN routeMap
          /\ \A p \in S : al[p] \in allowedMethodsJoin(routeMap[p].Methods)
          /\ mux' = [p \in S |-> [route |-> routeMap[p].Path, allowed |-> al[p]]] @@ mux
          /\ applied' = [applied EXCEPT
                            !.methods = [p \in S |-> DOMAIN routeMap[p].Methods] @@ @,
                            !.routes = @ \/ conflict = {}]
    /\ last' = [NoCall EXCEPT !.op = "ApplyRoutes",
                   !.panic = IF conflict = {} THEN "" ELSE "multiple registrations"]
    /\ NoRequest
    /\ UNCHANGED <<other, routeMap, heap, groups, globalMiddlewareStack, fallback,
                   serverHandler, binding>>

\* a call of ApplyRoutes by the application
ApplyRoutes == ApplyRoutesBody /\ UNCHANGED run

\* Mux().HandleFunc("/", h): an application handler for unmatched paths;
\* HandleFunc panics when a Route is already installed on "/"
MuxHandleFallback ==
    /\ ~fallback
    /\ fallback' = (Root \notin DOMAIN mux)
    /\ last' = [NoCall EXCEPT !.op = "MuxHandleFallback",
                   !.panic = IF Root \in DOMAIN mux THEN "multiple registrations" ELSE ""]
    /\ NoRequest
    /\ UNCHANGED <<other, run, routeMap, heap, groups, globalMiddlewareStack, mux,
                   serverHandler, binding, applied>>

\* variant: one stack for the whole process, whichever instance Use is
\* called on
UseShared(mws) ==
    /\ Len(globalMiddlewareStack) + Len(mws) <= MaxGlobal
    /\ Len(other.globalMiddlewareStack) + Len(mws) <= MaxGlobal
    /\ globalMiddlewareStack' = globalMiddlewareStack \o mws
    /\ other' = [other EXCEPT !.globalMiddlewareStack = @ \o mws]
    /\ last' = [NoCall EXCEPT !.op = "Use", !.mws = mws]
    /\ NoRequest
    /\ UNCHANGED <<run, routeMap, heap, groups, mux, fallback, serverHandler,
                   binding, applied>>

\* LightMux.Use(middlewares...)
Use(mws) ==
    /\ Len(globalMiddlewareStack) + Len(mws) <= MaxGlobal
    /\ globalMiddlewareStack' =
          IF Len(mws) # 0 THEN globalMiddlewareStack \o mws
          ELSE globalMiddlewareStack
    /\ last' = [NoCall EXCEPT !.op = "Use", !.mws = mws]
    /\ NoRequest
    /\ UNCHANGED <<other, run, routeMap, heap, groups, mux, fallback, serverHandler, binding, applied>>

\* variant: the chain is built around the handler the server already has
ApplyGlobalMiddlewaresRewrap ==
    LET base == IF serverHandler.h = "mux" THEN serverHandler
                ELSE [mws |-> <<>>, h |-> "mux"]
        finalHandler == IF Len(globalMiddlewareStack) > 0
                        THEN chainMiddlewares(base, globalMiddlewareStack)
                        ELSE base
    IN
    /\ serverHandler' = finalHandler
    /\ applied' = [applied EXCEPT !.global = globalMiddlewareStack,
                                  !.final = @ \/ applied.routes]
    /\ last' = [NoCall EXCEPT !.op = "ApplyGlobalMiddlewares",
                   !.repeat = /\ serverHandler.h = "mux"
                              /\ applied.global = globalMiddlewareStack]
    /\ NoRequest
    /\ UNCHANGED <<other, routeMap, heap, groups, globalMiddlewareStack, mux,
                   fallback, binding>>

\* LightMux.ApplyGlobalMiddlewares
ApplyGlobalMiddlewaresBody ==
    LET base == [mws |-> <<>>, h |-> "mux"]
        finalHandler == IF Len(globalMiddlewareStack) > 0
                        THEN chainMiddlewares(base, globalMiddlewareStack)
                        ELSE base
    IN
    /\ serverHandler' = finalHandler
    /\ applied' = [applied EXCEPT !.global = globalMiddlewareStack,
                                  !.final = @ \/ applied.routes]
    /\ last' = [NoCall EXCEPT !.op = "ApplyGlobalMiddlewares",
                   !.repeat = /\ serverHandler.h = "mux"
                              /\ applied.global = globalMiddlewareStack]
    /\ NoRequest
    /\ UNCHANGED <<other, routeMap, heap, groups, globalMiddlewareStack, mux,
                   fallback, binding>>

\* a call of ApplyGlobalMiddlewares by the application
ApplyGlobalMiddlewares == ApplyGlobalMiddlewaresBody /\ UNCHANGED run

\* ---------------------------------------------------------------- second instance
\* Use(middlewares...) on the second LightMux; `used` keeps what its own Use
\* calls were given
OtherUse(mws) ==
    /\ Len(other.globalMiddlewareStack) + Len(mws) <= MaxGlobal
    /\ other' = [other EXCEPT
                    !.globalMiddlewareStack = IF Len(mws) # 0 THEN @ \o mws ELSE @,
                    !.used = @ \o mws]
    /\ last' = [NoCall EXCEPT !.op = "OtherUse", !.mws = mws]
    /\ NoRequest
    /\ UNCHANGED <<run, routeMap, heap, groups, globalMiddlewareStack, mux,
                   fallback, serverHandler, binding, applied>>

\* ApplyGlobalMiddlewares on the second LightMux
OtherApplyGlobalMiddlewares ==
    LET base == [mws |-> <<>>, h |-> "mux"]
        finalHandler == IF Len(other.globalMiddlewareStack) > 0
                        THEN chainMiddlewares(base, other.globalMiddlewareStack)
                        ELSE base
    IN
    /\ other' = [other EXCEPT !.serverHandler = finalHandler]
    /\ last' = [NoCall EXCEPT !.op = "OtherApplyGlobalMiddlewares"]
    /\ NoRequest
    /\ UNCHANGED <<run, routeMap, heap, groups, globalMiddlewareStack, mux,
                   fallback, serverHandler, binding, applied>>

\* ---------------------------------------------------------------- requests
\* lmux.Mux().ServeHTTP(w, req), as the tests drive it
MuxServeHTTP(path, method, blocked) ==
    LET d == MuxServe(path, method, NoResp, blocked) IN
    /\ called' = d.called
    /\ resp' = Finish(d.w)
    /\ last' = [NoCall EXCEPT !.op = "ServeHTTP", !.via = "mux", !.path = path,
                   !.method = method, !.blocked = blocked]
    /\ UNCHANGED <<other, run, routeMap, heap, groups, globalMiddlewareStack, mux,
                   fallback, serverHandler, binding, applied>>

\* variant: the request is handed to the mux, not to the server handler
ServerServeHTTPDirect(path, method, blocked) ==
    /\ serverHandler.h = "mux"
    /\ LET d == MuxServe(path, method, NoResp, blocked) IN
       /\ called' = d.called
       /\ resp' = Finish(d.w)
    /\ last' = [NoCall EXCEPT !.op = "ServeHTTP", !.via = "server", !.path = path,
                   !.method = method, !.blocked = blocked]
    /\ UNCHANGED <<other, run, routeMap, heap, groups, globalMiddlewareStack, mux,
                   fallback, serverHandler, binding, applied>>

\* a request the running server hands to l.server.Handler
ServerServeHTTP(path, method, blocked) ==
    /\ serverHandler.h = "mux"
    /\ LET d == ServerServe(path, method, NoResp, blocked) IN
       /\ called' = d.called
       /\ resp' = Finish(d.w)
    /\ last' = [NoCall EXCEPT !.op = "ServeHTTP", !.via = "server", !.path = path,
                   !.method = method, !.blocked = blocked]
    /\ UNCHANGED <<other, run, routeMap, heap, groups, globalMiddlewareStack, mux,
                   fallback, serverHandler, binding, applied>>

\* ---------------------------------------------------------------- groups
\* LightMux.NewGroup(prefix, middlewares...)
NewGroup(prefix, mws) ==
    LET v == Variadic(heap, mws) IN
    /\ Len(groups) < MaxGroups
    /\ Len(v.heap) <= MaxArrays
    /\ groups' = Append(groups, [prefix |-> prefix, middlewares |-> v.slice])
    /\ heap' = v.heap
    /\ last' = [NoCall EXCEPT !.op = "NewGroup", !.path = prefix, !.mws = mws,
                   !.g = Len(groups) + 1]
    /\ NoRequest
    /\ UNCHANGED <<other, run, routeMap, globalMiddlewareStack, mux, fallback,
                   serverHandler, binding, applied>>

\* variant: the call-site middleware is put in front of the group's
GroupNewRouteCallSiteFirst(g, path, mws) ==
    /\ g \in 1..Len(groups)
    /\ LET fullPath == groups[g].prefix \o path
           v == Variadic(heap, mws)
           a == GoAppend(v.heap, v.slice, View(heap, groups[g].middlewares))
           allMiddleware == a.slice
       IN
       /\ allMiddleware.len <= MaxGroupChain
       /\ IF fullPath \in DOMAIN routeMap
          THEN /\ last' = [NoCall EXCEPT !.op = "GroupNewRoute", !.g = g,
                              !.path = path, !.mws = mws,
                              !.panic = "route exists"]
               /\ UNCHANGED <<other, run, routeMap, heap>>
          ELSE /\ routeMap' = (fullPath :> NewRouteObj(fullPath, allMiddleware))
                              @@ routeMap
               /\ heap' = a.heap
               /\ last' = [NoCall EXCEPT !.op = "GroupNewRoute", !.g = g,
                              !.path = path, !.mws = mws]
    /\ NoRequest
    /\ UNCHANGED <<other, run, groups, globalMiddlewareStack, mux, fallback,
                   serverHandler, binding, applied>>

\* RouteGroup.NewRoute(path, middlewares...) on group g.  The append runs
\* before LightMux.NewRoute checks the path, so an in-place write into the
\* group's backing array happens even when the call then panics; an array
\* allocated by the append of a panicking call is unreachable and dropped.
GroupNewRoute(g, path, mws) ==
    /\ g \in 1..Len(groups)
    /\ LET fullPath == groups[g].prefix \o path
           a == GoAppend(heap, groups[g].middlewares, mws)
           allMiddleware == a.slice
       IN
       /\ allMiddleware.len <= MaxGroupChain
       /\ Len(a.heap) <= MaxArrays
       /\ IF fullPath \in DOMAIN routeMap
          THEN /\ last' = [NoCall EXCEPT !.op = "GroupNewRoute", !.g = g,
                              !.path = path, !.mws = mws,
                              !.panic = "route exists"]
               /\ heap' = IF Len(a.heap) = Len(heap) THEN a.heap ELSE heap
               /\ UNCHANGED routeMap
          ELSE /\ routeMap' = (fullPath :> NewRouteObj(fullPath, allMiddleware))
                              @@ routeMap
               /\ heap' = a.heap
               /\ last' = [NoCall EXCEPT !.op = "GroupNewRoute", !.g = g,
                              !.path = path, !.mws = mws]
    /\ NoRequest
    /\ UNCHANGED <<other, run, groups, globalMiddlewareStack, mux, fallback,
                   serverHandler, binding, applied>>

\* variant: the receiver itself is extended and handed back
ContinueGroupInPlace(g, path, mws) ==
    /\ g \in 1..Len(groups)
    /\ Len(groups) < MaxGroups
    /\ LET a == GoAppend(heap, groups[g].middlewares, mws)
           extended == [prefix |-> groups[g].prefix \o path,
                        middlewares |-> a.slice]
       IN
       /\ a.slice.len <= MaxGroupChain
       /\ Len(a.heap) <= MaxArrays
       /\ heap' = a.heap
       /\ groups' = Append([groups EXCEPT ![g] = extended], extended)
    /\ last' = [NoCall EXCEPT !.op = "ContinueGroup", !.g = g, !.path = path,
                   !.mws = mws]
    /\ NoRequest
    /\ UNCHANGED <<other, run, routeMap, globalMiddlewareStack, mux, fallback,
                   serverHandler, binding, applied>>

\* RouteGroup.ContinueGroup(path, middlewares...) on group g: make + copy
\* gives an array of exactly len(g.middlewares), so appending anything to it
\* allocates the array the new group keeps
ContinueGroup(g, path, mws) ==
    /\ g \in 1..Len(groups)
    /\ Len(groups) < MaxGroups
    /\ LET newPrefix == groups[g].prefix \o path
           copied == Variadic(heap, View(heap, groups[g].middlewares))
           a == GoAppend(copied.heap, copied.slice, mws)
           newMiddlewares ==
               IF a.slice.arr = 0 THEN [heap |-> heap, slice |-> NilSlice]
               ELSE [heap  |-> Append(heap, a.heap[a.slice.arr]),
                     slice |-> [arr |-> Len(heap) + 1, len |-> a.slice.len]]
       IN
       /\ newMiddlewares.slice.len <= MaxGroupChain
       /\ Len(newMiddlewares.heap) <= MaxArrays
       /\ heap' = newMiddlewares.heap
       /\ groups' = Append(groups, [prefix |-> newPrefix,
                                    middlewares |-> newMiddlewares.slice])
    /\ last' = [NoCall EXCEPT !.op = "ContinueGroup", !.g = g, !.path = path,
                   !.mws = mws]
    /\ NoRequest
    /\ UNCHANGED <<other, run, routeMap, globalMiddlewareStack, mux, fallback,
                   serverHandler, binding, applied>>

\* ---------------------------------------------------------------- Spec
\* routing table, finalisation and dispatch through the mux
Next ==
    \/ \E mws \in MwInputs : NewRoute(<<"a">>, mws)
    \/ NewRoute(<<"b">>, <<>>)
    \/ \E mws \in UseInputs : RouteUse(<<"a">>, mws)
    \/ \E c \in HandleInputsA : Handle(<<"a">>, c[1], c[2])
    \/ \E c \in HandleInputsB : Handle(<<"b">>, c[1], c[2])
    \/ ApplyRoutes
    \/ \E q \in ReqInputs : MuxServeHTTP(q[1], q[2], q[3])

Spec == Init /\ [][Next]_vars

\* every method token isValidMethod has to tell apart, on one route
VerbInputs == {"GET", "POST", "PUT", "DELETE", "PATCH", "HEAD", "OPTIONS",
               "CONNECT", "TRACE", "get", "Get", "", "BREW"}

NextVerbs ==
    \/ NewRoute(<<"a">>, <<>>)
    \/ \E m \in VerbInputs : Handle(<<"a">>, m, "h1")

SpecVerbs == Init /\ [][NextVerbs]_vars

\* the global stack around the finalized mux
GlobalInputs == {<<>>, <<"G">>, <<"H">>, <<"G", "H">>}
GlobalBlocked == {{}, {"H"}, {"B"}}

NextGlobal ==
    \/ \E mws \in GlobalInputs : Use(mws)
    \/ \E mws \in MwInputs : NewRoute(<<"a">>, mws)
    \/ \E m \in {"GET", "POST"} : Handle(<<"a">>, m, "h1")
    \/ ApplyRoutes
    \/ ApplyGlobalMiddlewares
    \/ MuxHandleFallback
    \/ \E p \in {<<"a">>, <<"z">>}, m \in {"GET", "PUT"}, b \in GlobalBlocked :
          ServerServeHTTP(p, m, b)

SpecGlobal == Init /\ [][NextGlobal]_vars

\* route groups
GroupMwInputs == {<<>>, <<"P", "Q">>}
ContinueInputs == {<<"R">>}
ChildMwInputs == {<<>>, <<"A">>}
ChildPaths == {<<"b">>, <<"c">>}

NextGroup ==
    \/ \E mws \in GroupMwInputs : NewGroup(<<"a">>, mws)
    \/ \E g \in 1..MaxGroups, mws \in ContinueInputs :
          ContinueGroup(g, <<"b">>, mws)
    \/ \E g \in 1..MaxGroups, p \in ChildPaths, mws \in ChildMwInputs :
          GroupNewRoute(g, p, mws)
    \/ NewRoute(<<"a", "b">>, <<>>)

SpecGroup == Init /\ [][NextGroup]_vars

\* two instances, each with its own global stack
TwoInputs == {<<"G">>, <<"H">>}

NextTwo ==
    \/ \E mws \in TwoInputs : Use(mws)
    \/ ApplyGlobalMiddlewares
    \/ \E mws \in TwoInputs : OtherUse(mws)
    \/ OtherApplyGlobalMiddlewares

SpecTwo == Init /\ [][NextTwo]_vars

\* Routes made from groups, then extended and bound
AliasChildMw == {<<>>, <<"A">>, <<"B">>}
AliasRoutes == {<<"a", "b", "c">>, <<"a", "b", "d">>}
AliasHandle == {<<"GET", "h1">>, <<"GET", "h2">>, <<"get", "h1">>}

NextAlias ==
    \/ NewGroup(<<"a">>, <<"P", "Q">>)
    \/ ContinueGroup(1, <<"b">>, <<"R">>)
    \/ \E p \in {<<"c">>, <<"d">>}, mws \in AliasChildMw : GroupNewRoute(2, p, mws)
    \/ \E p \in AliasRoutes : RouteUse(p, <<"C">>)
    \/ \E c \in AliasHandle : Handle(<<"a", "b", "c">>, c[1], c[2])
    \/ NewRoute(<<"a", "b", "c">>, <<>>)

SpecAlias == Init /\ [][NextAlias]_vars

\* Routes on exact and on subtree patterns, a handler on "/", and requests
\* to paths with and without a Route
SubtreeRoutes == {<<"call">>, <<"api", "">>, Root}
SubtreeRequests == {<<"call">>, <<"random">>, <<"api", "x">>, <<"api">>, Root}

NextSubtree ==
    \/ \E p \in SubtreeRoutes : NewRoute(p, <<>>)
    \/ \E p \in SubtreeRoutes, h \in {"h1", "h2"} : Handle(p, "GET", h)
    \/ ApplyRoutes
    \/ MuxHandleFallback
    \/ \E p \in SubtreeRequests, m \in {"GET", "PUT"} : MuxServeHTTP(p, m, {})

SpecSubtree == Init /\ [][NextSubtree]_vars

\* registration calls before and after finalization, and served requests
ProbeRequests == {<<"a">>} \X {"GET", "POST"}
ServedRequests == ProbeRequests

NextFinal ==
    \/ NewRoute(<<"a">>, <<"A">>)
    \/ RouteUse(<<"a">>, <<"C">>)
    \/ \E m \in {"GET", "POST"} : Handle(<<"a">>, m, "h1")
    \/ Use(<<"G">>)
    \/ ApplyRoutes
    \/ ApplyGlobalMiddlewares
    \/ \E pm \in ServedRequests : ServerServeHTTP(pm[1], pm[2], {})

SpecFinal == Init /\ [][NextFinal]_vars

\* ---------------------------------------------------------------- run
\* what ListenAndServe, Shutdown and Run can return
ErrServerClosed == "http: Server closed"
DeadlineExceeded == "context deadline exceeded"
ListenErrors == {"listen: address already in use"}
AcceptErrors == {"accept: too many open files"}
CloseErrors == {"close: listener"}

\* the process is running (no os.Exit so far)
Alive == run.exit = ""

\* a step of Run, of its goroutine or of the server that touches neither
\* the routing table nor the handlers
RunStep(op, r) ==
    /\ run' = r
    /\ last' = [NoCall EXCEPT !.op = op]
    /\ NoRequest
    /\ UNCHANGED <<other, routeMap, heap, groups, globalMiddlewareStack, mux,
                   fallback, serverHandler, binding, applied>>

\* Run: l.ApplyRoutes(); a panic of ServeMux.HandleFunc leaves Run
RunApplyRoutes ==
    /\ Alive /\ run.pc = "idle"
    /\ ApplyRoutesBody
    /\ run' = [run EXCEPT !.pc = IF last'.panic = "" THEN "routes" ELSE "panicked"]

\* Run: l.ApplyGlobalMiddlewares()
RunApplyGlobalMiddlewares ==
    /\ Alive /\ run.pc = "routes"
    /\ ApplyGlobalMiddlewaresBody
    /\ run' = [run EXCEPT !.pc = "global"]

\* variant: the goroutine is started before the routes are applied
RunGoFirst ==
    /\ Alive /\ run.pc = "idle" /\ run.go = "none"
    /\ RunStep("go", [run EXCEPT !.go = "start"])

\* Run: errCh := make(chan error, 1); go func() {...}()
RunGo ==
    /\ Alive /\ run.pc = "global"
    /\ RunStep("go", [run EXCEPT !.pc = "wait", !.go = "start"])

\* errCh <- err: handed to a receiver parked in the select, else buffered
Send(r, err) ==
    IF r.pc = "parked" THEN [r EXCEPT !.pc = "err", !.recv = err]
    ELSE [r EXCEPT !.errCh = Append(@, err)]

\* Server.ListenAndServe in the goroutine: ErrServerClosed when Shutdown was
\* called first, else a listen error, else the accept loop starts
GoListen ==
    /\ Alive /\ run.go = "start"
    /\ IF run.srv = "shutting"
       THEN RunStep("ListenAndServe",
                    [run EXCEPT !.go = "done", !.listenErr = ErrServerClosed])
       ELSE \/ RunStep("ListenAndServe",
                       [run EXCEPT !.go = "serving", !.srv = "listening"])
            \/ \E err \in ListenErrors :
                  RunStep("ListenAndServe",
                          Send([run EXCEPT !.go = "done", !.listenErr = err], err))

\* the accept loop fails: ListenAndServe returns the error, the listener is closed
GoServeError ==
    /\ Alive /\ run.go = "serving" /\ run.srv = "listening"
    /\ \E err \in AcceptErrors :
          RunStep("ListenAndServe",
                  Send([run EXCEPT !.go = "done", !.listenErr = err,
                                   !.srv = "stopped"], err))

\* the accept loop ends after Shutdown: ErrServerClosed, nothing is sent
GoClosed ==
    /\ Alive /\ run.go = "serving" /\ run.srv = "shutting"
    /\ RunStep("ListenAndServe",
               [run EXCEPT !.go = "done", !.listenErr = ErrServerClosed])

\* the caller's context is cancelled; a Run parked in the select wakes up
\* on ctx.Done()
Cancel ==
    /\ Alive /\ ~run.cancelled
    /\ run.pc \notin {"returned", "panicked"}
    /\ RunStep("cancel", [run EXCEPT !.cancelled = TRUE,
                                     !.whileServing = run.go = "serving",
                                     !.pc = IF @ = "parked" THEN "done" ELSE @])

\* Run reaches the select: one of the ready cases is chosen, and the
\* goroutine parks when none is ready
Select ==
    /\ Alive /\ run.pc = "wait"
    /\ LET ready == (IF run.cancelled THEN {"done"} ELSE {})
                    \cup (IF run.errCh # <<>> THEN {"err"} ELSE {})
       IN IF ready = {}
          THEN RunStep("select", [run EXCEPT !.pc = "parked"])
          ELSE \E c \in ready :
                  RunStep("select",
                          IF c = "err"
                          THEN [run EXCEPT !.pc = "err", !.recv = Head(run.errCh),
                                           !.errCh = Tail(@)]
                          ELSE [run EXCEPT !.pc = "done"])

\* Server.Shutdown(ctx) begins: no new connections, the listener is closed
\* (its Close error is what Shutdown returns once the connections are idle)
ShutdownBegin(r, timeout, lnerr) ==
    [r EXCEPT !.pc = "shutdown", !.shutdownCalls = @ + 1, !.deadline = timeout,
              !.elapsed = 0, !.srv = "shutting", !.lnerr = lnerr]

\* the Close errors the listener can give when Shutdown closes it
ListenerClose(r) == IF r.srv = "listening" THEN {"nil"} \cup CloseErrors ELSE {"nil"}

\* variant: Shutdown is given a context without a deadline
DoneBranchNoDeadline ==
    /\ Alive /\ run.pc = "done"
    /\ \E lnerr \in ListenerClose(run) :
          RunStep("Shutdown", ShutdownBegin(run, GracePeriod + 1, lnerr))

\* case <-ctx.Done(): context.WithTimeout(Background, 5s); l.server.Shutdown
DoneBranch ==
    /\ Alive /\ run.pc = "done"
    /\ \E lnerr \in ListenerClose(run) :
          RunStep("Shutdown", ShutdownBegin(run, GracePeriod, lnerr))

\* case err := <-errCh: return err
ErrBranch ==
    /\ Alive /\ run.pc = "err"
    /\ RunStep("return", [run EXCEPT !.pc = "returned", !.result = run.recv])

\* a second passes while Shutdown waits for the connections
Tick ==
    /\ Alive /\ run.pc = "shutdown" /\ run.elapsed < GracePeriod
    /\ RunStep("tick", [run EXCEPT !.elapsed = @ + 1])

\* Shutdown: every connection is idle, return the listener's Close error
ShutdownDrained ==
    /\ Alive /\ run.pc = "shutdown" /\ run.inflight = 0
    /\ RunStep("ShutdownReturn",
               [run EXCEPT !.pc = "shutdownDone", !.shutdownErr = run.lnerr])

\* variant: Shutdown reports no error when its context expires
ShutdownDeadlineNil ==
    /\ Alive /\ run.pc = "shutdown" /\ run.inflight > 0
    /\ run.elapsed = run.deadline
    /\ RunStep("ShutdownReturn",
               [run EXCEPT !.pc = "shutdownDone", !.shutdownErr = "nil"])

\* Shutdown: the context expires with a request still in flight: ctx.Err()
ShutdownDeadline ==
    /\ Alive /\ run.pc = "shutdown" /\ run.inflight > 0
    /\ run.elapsed = run.deadline
    /\ RunStep("ShutdownReturn",
               [run EXCEPT !.pc = "shutdownDone", !.shutdownErr = DeadlineExceeded])

\* variant: the Shutdown error is dropped
RunReturnNil ==
    /\ Alive /\ run.pc = "shutdownDone"
    /\ RunStep("return", [run EXCEPT !.pc = "returned", !.result = "nil"])

\* if err := l.server.Shutdown(shutdownCtx); err != nil { return err }; return nil
RunReturn ==
    /\ Alive /\ run.pc = "shutdownDone"
    /\ RunStep("return",
               [run EXCEPT !.pc = "returned",
                           !.result = IF run.shutdownErr # "nil"
                                      THEN run.shutdownErr ELSE "nil"])

\* the accept loop takes a connection
Accept ==
    /\ Alive /\ run.go = "serving" /\ run.srv = "listening"
    /\ run.inflight < MaxInflight
    /\ RunStep("accept", [run EXCEPT !.inflight = @ + 1])

\* the connection's request is served by l.server.Handler and the
\* connection becomes idle
ConnServe(path, method) ==
    /\ Alive /\ run.inflight > 0
    /\ LET d == ServerServe(path, method, NoResp, {}) IN
       /\ called' = d.called
       /\ resp' = Finish(d.w)
    /\ last' = [NoCall EXCEPT !.op = "ServeHTTP", !.via = "server", !.path = path,
                   !.method = method]
    /\ run' = [run EXCEPT !.inflight = @ - 1]
    /\ UNCHANGED <<other, routeMap, heap, groups, globalMiddlewareStack, mux,
                   fallback, serverHandler, binding, applied>>

\* ---- the signal-driven Run
\* a termination signal is delivered to the channel given to signal.Notify
Signal ==
    /\ Alive /\ ~run.cancelled
    /\ run.pc \notin {"returned", "panicked"}
    /\ RunStep("signal", [run EXCEPT !.cancelled = TRUE,
                                     !.whileServing = run.go = "serving"])

\* the goroutine: log.Fatalf on a ListenAndServe error, os.Exit(0) on
\* ErrServerClosed
SigListen ==
    /\ Alive /\ run.go = "start"
    /\ IF run.srv = "shutting"
       THEN RunStep("ListenAndServe",
                    [run EXCEPT !.go = "done", !.listenErr = ErrServerClosed,
                                !.exit = "exit0"])
       ELSE \/ RunStep("ListenAndServe",
                       [run EXCEPT !.go = "serving", !.srv = "listening"])
            \/ \E err \in ListenErrors :
                  RunStep("ListenAndServe",
                          [run EXCEPT !.go = "done", !.listenErr = err,
                                      !.exit = "fatal"])

SigServeError ==
    /\ Alive /\ run.go = "serving" /\ run.srv = "listening"
    /\ \E err \in AcceptErrors :
          RunStep("ListenAndServe",
                  [run EXCEPT !.go = "done", !.listenErr = err,
                              !.srv = "stopped", !.exit = "fatal"])

\* the accept loop ends after Shutdown: the goroutine ends the process
SigClosed ==
    /\ Alive /\ run.go = "serving" /\ run.srv = "shutting"
    /\ RunStep("ListenAndServe",
               [run EXCEPT !.go = "done", !.listenErr = ErrServerClosed,
                           !.exit = "exit0"])

\* <-stop; context.WithTimeout(Background, 5s); l.server.Shutdown(ctx)
SigReceive ==
    /\ Alive /\ run.pc = "wait" /\ run.cancelled
    /\ \E lnerr \in ListenerClose(run) :
          RunStep("Shutdown", ShutdownBegin(run, GracePeriod, lnerr))

\* log.Fatalf on a Shutdown error other than ErrServerClosed, else return nil
SigReturn ==
    /\ Alive /\ run.pc = "shutdownDone"
    /\ RunStep("return",
               IF run.shutdownErr \notin {"nil", ErrServerClosed}
               THEN [run EXCEPT !.exit = "fatal"]
               ELSE [run EXCEPT !.pc = "returned", !.result = "nil"])

\* ---- specifications of Run
\* the server, whichever Run started it
ServerSteps ==
    \/ Tick
    \/ ShutdownDrained
    \/ ShutdownDeadline
    \/ Accept
    \/ \E m \in {"GET", "POST"} : ConnServe(<<"a">>, m)

\* registration by the application, all of it before it calls Run
NextRun ==
    \/ run.pc = "idle" /\ NewRoute(<<"a">>, <<"A">>)
    \/ run.pc = "idle" /\ Handle(<<"a">>, "GET", "h1")
    \/ run.pc = "idle" /\ Use(<<"G">>)
    \/ run.pc = "idle" /\ ApplyRoutes
    \/ RunApplyRoutes
    \/ RunApplyGlobalMiddlewares
    \/ RunGo
    \/ GoListen
    \/ GoServeError
    \/ GoClosed
    \/ Cancel
    \/ Select
    \/ DoneBranch
    \/ ErrBranch
    \/ RunReturn
    \/ ServerSteps

SpecRun == Init /\ [][NextRun]_vars

\* Run's own goroutine is scheduled, time passes and Shutdown polls; nothing
\* is assumed of the listener, of the caller's context or of the clients
RunFairness ==
    /\ WF_vars(Select)
    /\ WF_vars(DoneBranch)
    /\ WF_vars(ErrBranch)
    /\ WF_vars(RunReturn)
    /\ WF_vars(Tick)
    /\ WF_vars(ShutdownDrained)
    /\ WF_vars(ShutdownDeadline)

SpecRunLive == Init /\ [][NextRun]_vars /\ RunFairness

\* the owner of the *http.Server given to NewLightMux closes it: the
\* listener and the connections are closed, ListenAndServe returns
\* ErrServerClosed
ServerClose ==
    /\ Alive /\ run.srv \in {"new", "listening"}
    /\ run.pc \notin {"returned", "panicked"}
    /\ RunStep("Close", [run EXCEPT !.srv = "shutting", !.inflight = 0])

NextRunClose ==
    \/ NextRun
    \/ ServerClose

SpecRunClose == Init /\ [][NextRunClose]_vars /\ RunFairness

NextSignal ==
    \/ run.pc = "idle" /\ NewRoute(<<"a">>, <<"A">>)
    \/ run.pc = "idle" /\ Handle(<<"a">>, "GET", "h1")
    \/ run.pc = "idle" /\ Use(<<"G">>)
    \/ RunApplyRoutes
    \/ RunApplyGlobalMiddlewares
    \/ RunGo
    \/ SigListen
    \/ SigServeError
    \/ SigClosed
    \/ Signal
    \/ SigReceive
    \/ SigReturn
    \/ ServerSteps

SpecSignal == Init /\ [][NextSignal]_vars

\* ---------------------------------------------------------------- properties
\* the request just served reached the dispatch closure of a Route
RouteRequest ==
    /\ last.op = "ServeHTTP"
    /\ last.path \in DOMAIN mux
    /\ last.path \in DOMAIN routeMap

\* ... and the Route has a handler for the request's method
BoundRequest ==
    /\ RouteRequest
    /\ <<last.path, last.method>> \in DOMAIN binding

Bound == binding[<<last.path, last.method>>]

\* the allowed-methods list of a 405 body
AllowedOf(body) == (CHOOSE kv \in body : TRUE)[2][3]

NoDuplicates(seq) == Cardinality(Range(seq)) = Len(seq)

\* C1: a request for a bound method runs the middleware the Route held when
\* the method was bound, in that order, then the handler, each once, when
\* every middleware calls next.
C1_MiddlewareOrder ==
    (BoundRequest /\ last.via = "mux" /\ last.blocked \cap Range(Bound.mws) = {})
        => called = Bound.mws \o <<Bound.h>>

C1_Witness ==
    /\ BoundRequest /\ last.via = "mux" /\ last.blocked = {}
    /\ Bound.mws = <<"A", "B", "C">>
    /\ called = <<"A", "B", "C", "h1">>

\* C2: through the server handler every global middleware installed by
\* ApplyGlobalMiddlewares runs first, in Use order, before any route
\* middleware and before the handler.
C2_GlobalFirst ==
    (last.op = "ServeHTTP" /\ last.via = "server"
        /\ last.blocked \cap Range(applied.global) = {})
        => LET n == Len(applied.global) IN
           /\ Len(called) >= n
           /\ SubSeq(called, 1, n) = applied.global
           /\ Range(SubSeq(called, n + 1, Len(called))) \cap Range(applied.global) = {}
           /\ (BoundRequest /\ last.blocked \cap Range(Bound.mws) = {})
                 => called = applied.global \o Bound.mws \o <<Bound.h>>

C2_Witness ==
    /\ last.op = "ServeHTTP" /\ last.via = "server" /\ BoundRequest
    /\ applied.global = <<"G", "H">>
    /\ called = <<"G", "H", "A", "B", "h1">>

\* C3: a request to an installed Route for a method it has not bound gets
\* status 405 and a JSON object whose only key is "error", and none of the
\* Route's handlers runs.
C3_MethodNotAllowed ==
    (RouteRequest /\ last.via = "mux"
        /\ last.method \notin DOMAIN routeMap[last.path].Methods)
        => /\ resp.status = 405
           /\ Cardinality(resp.body) = 1
           /\ {kv[1] : kv \in resp.body} = {"error"}
           /\ Range(called) \cap HandlerInputs = {}

C3_Witness ==
    /\ RouteRequest /\ last.via = "mux"
    /\ DOMAIN routeMap[last.path].Methods = {}
    /\ resp.status = 405

\* C4: every 405 response is sent with Content-Type: application/json.
C4_ContentTypeSent ==
    (RouteRequest /\ resp.status = 405)
        => /\ "Content-Type" \in DOMAIN resp.sent
           /\ resp.sent["Content-Type"] = "application/json"

\* C5 as stated: the allowed-methods list of a 405 names exactly the methods
\* the Route dispatches at the time of the request, each once.
C5_AllowedAtRequest ==
    (RouteRequest /\ resp.status = 405)
        => /\ Range(AllowedOf(resp.body)) = DOMAIN routeMap[last.path].Methods
           /\ NoDuplicates(AllowedOf(resp.body))

\* C5 amended: the list names exactly the methods that were bound on the
\* Route when ApplyRoutes installed its dispatch function, each once.
C5_AllowedAtApply ==
    (RouteRequest /\ resp.status = 405)
        => /\ Range(AllowedOf(resp.body)) = applied.methods[last.path]
           /\ NoDuplicates(AllowedOf(resp.body))

C5_Witness ==
    /\ RouteRequest /\ resp.status = 405
    /\ last.method = "POST"
    /\ applied.methods[last.path] = {"GET"}
    /\ AllowedOf(resp.body) = <<"GET">>

\* C6: a request for a bound method of an installed Route runs the handler
\* bound for that path and method and no other handler; a successful Handle
\* binds the handler it was given.
C6_BoundHandler ==
    /\ (BoundRequest /\ last.via = "mux")
          => /\ Range(called) \cap HandlerInputs \subseteq {Bound.h}
             /\ last.blocked \cap Range(Bound.mws) = {}
                   => /\ called[Len(called)] = Bound.h
                      /\ \A i \in 1..(Len(called) - 1) : called[i] \notin HandlerInputs
    /\ (last.op = "Handle" /\ last.panic = "")
          => /\ <<last.path, last.method>> \in DOMAIN binding
             /\ binding[<<last.path, last.method>>].h = last.h

C6_Witness ==
    /\ BoundRequest /\ last.via = "mux"
    /\ last.path = <<"a">> /\ last.method = "POST"
    /\ <<<<"a">>, "GET">> \in DOMAIN binding /\ binding[<<<<"a">>, "GET">>].h = "h1"
    /\ <<<<"b">>, "GET">> \in DOMAIN binding
    /\ Bound.h = "h2"
    /\ called[Len(called)] = "h2"

\* C7: NewRoute on a path that already has a Route panics and leaves the
\* routing table, every Route in it and their middleware as they were.
C7_DuplicatePath ==
    [][(last'.op = "NewRoute" /\ last'.path \in DOMAIN routeMap)
          => /\ last'.panic = "route exists"
             /\ routeMap' = routeMap
             /\ heap' = heap]_vars

C7_Witness ==
    /\ last.op = "NewRoute" /\ last.panic = "route exists"
    /\ Cardinality(DOMAIN routeMap) = 2
    /\ DOMAIN routeMap[last.path].Methods # {}
    /\ last.mws # View(heap, routeMap[last.path].Middlewares)

\* C8: Handle for a method the Route has already bound panics and leaves
\* the Route as it was; the method is still served by the first handler.
C8_DuplicateMethod ==
    [][(/\ last'.op = "Handle"
        /\ last'.path \in DOMAIN routeMap
        /\ last'.method \in DOMAIN routeMap[last'.path].Methods)
          => /\ last'.panic = "duplicate method"
             /\ routeMap' = routeMap
             /\ heap' = heap
             /\ binding' = binding
             /\ routeMap'[last'.path].Methods[last'.method].h
                   = binding[<<last'.path, last'.method>>].h]_vars

C8_Witness ==
    /\ last.op = "Handle" /\ last.panic = "duplicate method"
    /\ binding[<<last.path, last.method>>].h # last.h

NineVerbs == {"GET", "POST", "PUT", "DELETE", "PATCH", "HEAD", "OPTIONS",
              "CONNECT", "TRACE"}

\* C9: Handle panics exactly when the method is not one of the nine verbs,
\* letter for letter, or is already bound; a call with an invalid method
\* leaves the method map unchanged.
C9_HandlePanics ==
    [][(last'.op = "Handle" /\ last'.path \in DOMAIN routeMap)
          => LET invalid == last'.method \notin NineVerbs
                 dup == last'.method \in DOMAIN routeMap[last'.path].Methods
             IN /\ (last'.panic # "") <=> (invalid \/ dup)
                /\ invalid => /\ last'.panic = "invalid method"
                              /\ routeMap'[last'.path].Methods
                                    = routeMap[last'.path].Methods
                /\ (~invalid /\ ~dup) =>
                      DOMAIN routeMap'[last'.path].Methods
                         = DOMAIN routeMap[last'.path].Methods \cup {last'.method}]_vars

C9_Witness ==
    /\ last.op = "Handle" /\ last.panic = "invalid method" /\ last.method = "get"
    /\ DOMAIN routeMap[last.path].Methods = NineVerbs

\* C10: RouteGroup.NewRoute registers the Route under prefix + path with the
\* group's middleware followed by the call-site middleware, a group's
\* middleware being its parent's followed by its own; a path that is already
\* registered is rejected and no Route is added or replaced.
C10_GroupRoute ==
    [][/\ last'.op = "GroupNewRoute" =>
            LET g == last'.g
                fullPath == groups[g].prefix \o last'.path
                want == View(heap, groups[g].middlewares) \o last'.mws
            IN IF fullPath \in DOMAIN routeMap
               THEN last'.panic = "route exists" /\ routeMap' = routeMap
               ELSE /\ last'.panic = ""
                    /\ DOMAIN routeMap' = DOMAIN routeMap \cup {fullPath}
                    /\ routeMap'[fullPath].Path = fullPath
                    /\ routeMap'[fullPath].Methods = EmptyMap
                    /\ View(heap', routeMap'[fullPath].Middlewares) = want
                    /\ \A p \in DOMAIN routeMap : routeMap'[p] = routeMap[p]
       /\ last'.op = "ContinueGroup" =>
            /\ Len(groups') = Len(groups) + 1
            /\ groups'[Len(groups')].prefix = groups[last'.g].prefix \o last'.path
            /\ View(heap', groups'[Len(groups')].middlewares)
                  = View(heap, groups[last'.g].middlewares) \o last'.mws]_vars

C10_Witness ==
    /\ last.op = "GroupNewRoute" /\ last.panic = "" /\ last.g = 2
    /\ groups[2].prefix = <<"a", "b">>
    /\ <<"a", "b", "c">> \in DOMAIN routeMap
    /\ <<"a", "b">> \in DOMAIN routeMap
    /\ View(heap, routeMap[<<"a", "b", "c">>].Middlewares) = <<"P", "Q", "R", "A">>

\* C11: ContinueGroup returns a new group whose prefix is the parent's
\* prefix + suffix and whose middleware is the parent's followed by the new
\* middleware; no call on any group or route changes the prefix or the
\* middleware sequence of a group that already exists.
C11_ContinueGroup ==
    [][/\ \A g \in 1..Len(groups) :
            /\ g <= Len(groups')
            /\ groups'[g].prefix = groups[g].prefix
            /\ View(heap', groups'[g].middlewares)
                  = View(heap, groups[g].middlewares)
       /\ last'.op = "ContinueGroup" =>
            LET child == groups'[Len(groups')] IN
            /\ Len(groups') = Len(groups) + 1
            /\ child.prefix = groups[last'.g].prefix \o last'.path
            /\ View(heap', child.middlewares)
                  = View(heap, groups[last'.g].middlewares) \o last'.mws]_vars

C11_Witness ==
    /\ last.op = "GroupNewRoute" /\ last.panic = "" /\ last.g = 2
    /\ last.mws = <<"A">>
    /\ groups[1].prefix = <<"a">>
    /\ View(heap, groups[1].middlewares) = <<"P", "Q">>
    /\ groups[2].prefix = <<"a", "b">>
    /\ View(heap, groups[2].middlewares) = <<"P", "Q", "R">>

\* C19 as stated: every ApplyRoutes, a repeated one included, installs a
\* dispatch function for every stored Route's path (with the methods the
\* Route has at that time).
C19_InstallsAgain ==
    [][last'.op = "ApplyRoutes"
          => /\ last'.panic = ""
             /\ \A p \in DOMAIN routeMap :
                   /\ p \in DOMAIN mux'
                   /\ applied'.methods[p] = DOMAIN routeMap[p].Methods]_vars

\* C19 amended: ApplyRoutes is not idempotent.  With no stored path installed
\* yet it installs every stored Route; with a stored path already installed
\* it panics (the mux refuses a second registration of a pattern), and in
\* either case the dispatch functions installed earlier stay as they were.
C19_NotIdempotent ==
    [][last'.op = "ApplyRoutes"
          => /\ \A p \in DOMAIN mux :
                   /\ p \in DOMAIN mux'
                   /\ mux'[p] = mux[p]
                   /\ applied'.methods[p] = applied.methods[p]
             /\ DOMAIN routeMap \cap DOMAIN mux = {}
                   => /\ last'.panic = ""
                      /\ DOMAIN mux' = DOMAIN mux \cup DOMAIN routeMap
                      /\ \A p \in DOMAIN routeMap :
                            applied'.methods[p] = DOMAIN routeMap[p].Methods
             /\ DOMAIN routeMap \cap DOMAIN mux # {}
                   => last'.panic = "multiple registrations"]_vars

C19_Witness ==
    /\ last.op = "ApplyRoutes" /\ last.panic = "multiple registrations"
    /\ DOMAIN mux = {<<"a">>}
    /\ DOMAIN routeMap = {<<"a">>, <<"b">>}
    /\ applied.methods[<<"a">>] # DOMAIN routeMap[<<"a">>].Methods

\* C20: the Route's middleware is applied when the request is served: a
\* request for a bound method runs the middleware the Route holds at the time
\* of the request (Route.Use after Handle included), then the handler.
C20_ServeTimeMiddleware ==
    (BoundRequest /\ last.via = "mux" /\ last.blocked = {})
        => called = View(heap, routeMap[last.path].Middlewares) \o <<Bound.h>>

\* what the server handler does for each request, every middleware calling next
DispatchTable ==
    [pm \in ProbeRequests |-> ServerServe(pm[1], pm[2], NoResp, {})]

RegistrationCalls == {"NewRoute", "Handle", "RouteUse", "Use"}

\* C18 as stated: once ApplyRoutes followed by ApplyGlobalMiddlewares has
\* completed, no NewRoute, Route.Handle, Route.Use or LightMux.Use changes the
\* handler chain or the response of any (path, method) request.
C18_ReadOnly ==
    [][(applied.final /\ last'.op \in RegistrationCalls)
          => DispatchTable' = DispatchTable]_vars

\* C18 amended: after finalization NewRoute, Route.Use and LightMux.Use change
\* no request's handler chain or response; a Route.Handle that binds a new
\* method on an installed Route changes that one (path, method) from the 405
\* response to the installed global chain, the Route's middleware at that
\* Handle and the new handler, and changes no other request.
C18_OnlyHandle ==
    [][(applied.final /\ last'.op \in RegistrationCalls)
          => \A pm \in ProbeRequests :
                DispatchTable'[pm] # DispatchTable[pm]
                   => /\ last'.op = "Handle" /\ last'.panic = ""
                      /\ pm = <<last'.path, last'.method>>
                      /\ pm[1] \in DOMAIN mux
                      /\ DispatchTable[pm].w.status = 405
                      /\ DispatchTable'[pm].called =
                            applied.global \o binding'[pm].mws \o <<last'.h>>]_vars

C18_Witness ==
    /\ applied.final
    /\ last.op = "Handle" /\ last.panic = ""
    /\ last.path \in DOMAIN mux
    /\ last.method \notin applied.methods[last.path]
    /\ globalMiddlewareStack # applied.global
    /\ View(heap, routeMap[last.path].Middlewares) = <<"A", "C">>
    /\ DispatchTable[<<last.path, last.method>>].called = <<"G", "A", "C", "h1">>

\* a request has been, or could be, taken by the listener
ListenerStarted ==
    \/ run.go # "none"
    \/ run.srv # "new"
    \/ run.inflight > 0
    \/ last.op = "ServeHTTP" /\ last.via = "server"

\* C12: in Run the routes are installed first, then the global chain is
\* installed as the server handler, and only then the listener starts; no
\* request is dispatched before both steps have completed.
C12_FinalizeThenListen ==
    /\ run.pc = "routes" => applied.routes /\ ~ListenerStarted
    /\ run.pc = "global" => applied.final /\ ~ListenerStarted
    /\ ListenerStarted
          => /\ applied.final
             /\ DOMAIN routeMap \subseteq DOMAIN mux
             /\ serverHandler = chainMiddlewares([mws |-> <<>>, h |-> "mux"],
                                                 globalMiddlewareStack)

C12_Witness ==
    /\ last.op = "ServeHTTP" /\ last.via = "server"
    /\ run.go = "serving"
    /\ called = <<"G", "A", "h1">>

\* C13: when ListenAndServe returns an error other than ErrServerClosed,
\* Run returns exactly that error, whatever the interleaving with the
\* cancellation of the context.
C13_ListenErrorReturned ==
    (run.pc = "returned" /\ run.listenErr \in ListenErrors \cup AcceptErrors)
        => run.result = run.listenErr

C16_ShutdownErrorReturned ==
    (run.pc = "returned" /\ run.shutdownCalls > 0 /\ run.shutdownErr # "nil")
        => /\ run.result = run.shutdownErr
           /\ run.result \notin {"nil", ErrServerClosed}

C16_Witness ==
    /\ run.pc = "returned" /\ run.result \in CloseErrors
    /\ run.elapsed < GracePeriod
    /\ last.op = "return"

\* C17: in the signal-driven Run, after a signal delivered while serving,
\* the process is not ended by the goroutine: Run returns nil after Shutdown
\* has completed.
C17_RunReturnsAfterSignal ==
    (run.whileServing /\ run.listenErr = ErrServerClosed) => run.exit = ""

\* the part of a chain that runs when the middleware in `blocked` do not
\* call next: everything up to and including the first of them
RECURSIVE UpToBlocked(_, _)
UpToBlocked(chain, blocked) ==
    IF chain = <<>> THEN <<>>
    ELSE IF Head(chain) \in blocked THEN <<Head(chain)>>
    ELSE <<Head(chain)>> \o UpToBlocked(Tail(chain), blocked)

\* what only the mux and the routing table produce
RoutingOutput ==
    \/ resp.status \in {404, 405}
    \/ Range(called) \cap ({"fallback"} \cup HandlerInputs) # {}

\* C24: a request through the server handler reaches the routing (a route
\* handler, a 405, the fallback or the mux's 404) only after every installed
\* global middleware has run, in order; when a global middleware stops the
\* request nothing of the routing runs.
C24_GlobalBeforeRouting ==
    (last.op = "ServeHTTP" /\ last.via = "server")
        => LET g == applied.global IN
           /\ RoutingOutput
                 => /\ Len(called) >= Len(g)
                    /\ SubSeq(called, 1, Len(g)) = g
                    /\ last.blocked \cap Range(g) = {}
           /\ last.blocked \cap Range(g) # {}
                 => /\ called = UpToBlocked(g, last.blocked)
                    /\ resp.body = {}

C24_Witness ==
    /\ last.op = "ServeHTTP" /\ last.via = "server"
    /\ resp.status = 405
    /\ applied.global = <<"G", "H">>
    /\ called = <<"G", "H">>
    /\ View(heap, routeMap[last.path].Middlewares) = <<"A", "B">>

\* C25: when a middleware of the chain (global middleware, then the Route's
\* middleware at Handle, then the handler) does not call next, the chain runs
\* in order up to and including that middleware and nothing after it runs.
C25_ShortCircuit ==
    (last.op = "ServeHTTP" /\ last.via = "server" /\ BoundRequest)
        => called = UpToBlocked(applied.global \o Bound.mws \o <<Bound.h>>,
                                last.blocked)

C25_Witness ==
    /\ last.op = "ServeHTTP" /\ last.via = "server" /\ BoundRequest
    /\ last.blocked = {"B"}
    /\ Bound.mws = <<"A", "B">>
    /\ applied.global = <<"G", "H">>
    /\ called = <<"G", "H", "A", "B">>

\* C27: a request answered with 405 because its method is not bound runs none
\* of the Route's middleware.
C27_NoMiddlewareOn405 ==
    (/\ RouteRequest /\ last.via = "mux"
     /\ last.method \notin DOMAIN routeMap[last.path].Methods)
        => /\ called = <<>>
           /\ resp.status = 405

C27_Witness ==
    /\ RouteRequest /\ last.via = "mux" /\ last.blocked = {}
    /\ resp.status = 405 /\ called = <<>>
    /\ View(heap, routeMap[last.path].Middlewares) = <<"A", "B", "C">>
    /\ \E m \in DOMAIN routeMap[last.path].Methods :
          binding[<<last.path, m>>].mws = <<"A", "B">>

\* C29: ApplyGlobalMiddlewares always builds the chain around the bare mux:
\* the installed handler is the current global stack around the mux, applying
\* it again with the same stack leaves the handler as it was, and a request
\* runs each installed global middleware once.
C29_ApplyGlobalIdempotent ==
    /\ [][last'.op = "ApplyGlobalMiddlewares"
            => /\ serverHandler' = [mws |-> globalMiddlewareStack, h |-> "mux"]
               /\ last'.repeat => serverHandler' = serverHandler]_vars
    /\ []((last.op = "ServeHTTP" /\ last.via = "server" /\ last.blocked = {})
            => /\ SubSeq(called, 1, Len(applied.global)) = applied.global
               /\ \A i \in (Len(applied.global) + 1)..Len(called) :
                     called[i] \notin Range(applied.global))

C29_Witness ==
    /\ last.op = "ApplyGlobalMiddlewares" /\ last.repeat
    /\ serverHandler = [mws |-> <<"G", "H">>, h |-> "mux"]

\* the middleware sequence Route p holds
RouteMiddlewares(p) == View(heap, routeMap[p].Middlewares)

\* C21: Route.Use on one Route leaves the middleware sequence and the
\* composed handlers of every other Route as they were.
C21_UseOnlyItsRoute ==
    [][last'.op = "RouteUse"
          => \A p \in DOMAIN routeMap \ {last'.path} :
                /\ RouteMiddlewares(p)' = RouteMiddlewares(p)
                /\ routeMap'[p].Methods = routeMap[p].Methods]_vars

\* C26: RouteGroup.NewRoute never changes the middleware sequence of a
\* Route that exists already, nor the sequence of any group.
C26_GroupRoutesIndependent ==
    [][last'.op = "GroupNewRoute"
          => /\ \A p \in DOMAIN routeMap :
                   RouteMiddlewares(p)' = RouteMiddlewares(p)
             /\ \A g \in 1..Len(groups) :
                   View(heap', groups'[g].middlewares)
                      = View(heap, groups[g].middlewares)]_vars

\* C30: every key p of the routing table maps to a Route whose Path is p,
\* every bound method is one of the nine verbs, and a bound method keeps the
\* handler it was first bound to, whatever calls follow (panicking ones
\* included).
C30_TableWellFormed ==
    /\ [](\A p \in DOMAIN routeMap :
             /\ routeMap[p].Path = p
             /\ DOMAIN routeMap[p].Methods \subseteq NineVerbs)
    /\ [][\A p \in DOMAIN routeMap :
             /\ p \in DOMAIN routeMap'
             /\ \A m \in DOMAIN routeMap[p].Methods :
                   /\ m \in DOMAIN routeMap'[p].Methods
                   /\ routeMap'[p].Methods[m] = routeMap[p].Methods[m]]_vars

C30_Witness ==
    /\ last.op = "Handle" /\ last.panic = "duplicate method" /\ last.h = "h2"
    /\ DOMAIN routeMap = AliasRoutes
    /\ routeMap[<<"a", "b", "c">>].Methods["GET"].h = "h1"
    /\ RouteMiddlewares(<<"a", "b", "c">>) = <<"P", "Q", "R", "C">>

\* C28: once ListenAndServe has returned, with whatever result, Run
\* eventually returns, cancelled context or not.
C28_RunReturnsAfterListener ==
    (run.go = "done") ~> (run.pc = "returned")

\* C22: Use on one instance never changes the global stack or the installed
\* server handler of the other one, in any interleaving of Use and
\* ApplyGlobalMiddlewares on the two: each instance's stack is what its own
\* Use calls were given, and each installed chain was built from its own stack.
C22_StackPerInstance ==
    /\ [][/\ last'.op = "Use"
               => /\ other'.globalMiddlewareStack = other.globalMiddlewareStack
                  /\ other'.serverHandler = other.serverHandler
          /\ last'.op = "OtherUse"
               => /\ globalMiddlewareStack' = globalMiddlewareStack
                  /\ serverHandler' = serverHandler]_vars
    /\ [](other.globalMiddlewareStack = other.used)
    /\ [](Range(other.serverHandler.mws) \subseteq Range(other.used))

C22_Witness ==
    /\ last.op = "Use" /\ last.mws = <<"G">>
    /\ globalMiddlewareStack = <<"H", "G">>
    /\ serverHandler = [mws |-> <<"H">>, h |-> "mux"]
    /\ other.globalMiddlewareStack = <<"G", "H">>
    /\ other.serverHandler = [mws |-> <<"G">>, h |-> "mux"]

\* the installed Route patterns a path lies under: a pattern ending in "/"
\* that is a prefix of the path
Covering(path) ==
    {pat \in DOMAIN mux :
        /\ pat[Len(pat)] = ""
        /\ Len(path) >= Len(pat)
        /\ \A i \in 1..(Len(pat) - 1) : path[i] = pat[i]}

\* a request the mux has answered for a path that has no Route
NoRouteRequest ==
    /\ last.op = "ServeHTTP"
    /\ last.via = "mux"
    /\ last.path \notin DOMAIN routeMap

\* C23 (as stated): a request to a path that has no Route never reaches a
\* Route's handler or 405 responder, and the handler registered on "/" is the
\* one invoked
C23_NoRouteFallsThrough ==
    NoRouteRequest =>
        /\ Range(called) \cap HandlerInputs = {}
        /\ resp.status # 405
        /\ fallback => called = <<"fallback">>

\* C23 (amended): a request to a path that has no Route is answered by the
\* mux with a redirect when the path plus "/" is an installed Route pattern;
\* otherwise, when the path lies under installed Route patterns ending in "/",
\* it is dispatched to the Route of the longest one (its handler or its 405
\* responder); otherwise it never reaches a Route's handler or 405 responder:
\* the handler registered on "/" is invoked, or without one the mux answers 404
C23_NoRouteFallsThroughExact ==
    NoRouteRequest =>
        LET c == Covering(last.path) IN
        IF last.path \o <<"">> \in DOMAIN mux
        THEN called = <<>> /\ resp.status = 301
        ELSE IF c = {}
        THEN /\ Range(called) \cap HandlerInputs = {}
             /\ resp.status # 405
             /\ IF fallback THEN called = <<"fallback">>
                ELSE called = <<>> /\ resp.status = 404
        ELSE LET pat == CHOOSE q \in c : \A o \in c : Len(o) <= Len(q)
                 route == routeMap[mux[pat].route]
             IN IF last.method \in DOMAIN route.Methods
                THEN called = <<route.Methods[last.method].h>>
                ELSE called = <<>> /\ resp.status = 405

\* with the Route "/api/" installed and a handler on "/", a request to a path
\* that has no Route and lies under no Route pattern reached the handler on "/"
C23_Witness ==
    /\ NoRouteRequest
    /\ <<"api", "">> \in DOMAIN mux
    /\ last.path = <<"random">>
    /\ called = <<"fallback">>

====
